---- MODULE Spec2Model ----
(***************************************************************************)
(* Authentication and session lifecycle of the Agenda Escolar backend:     *)
(* password login, opaque rotating refresh tokens with reuse detection,    *)
(* logout and the refresh-token table they share.                          *)
(*                                                                         *)
(* Every request runs in its own database session.  login_user and         *)
(* logout_user are one step each.  refresh_access_token is split at its    *)
(* commits: the reads up to the first write (get_by_hash, the clock,       *)
(* get_by_id), then revoke, then create, so that two rotations interleave  *)
(* where the database lets them.                                           *)
(*                                                                         *)
(* A run fixes a scope: the registered accounts, the number of request     *)
(* workers, and whether accounts are deactivated or deleted during it.     *)
(*                                                                         *)
(* ApiSpec adds the HTTP routes around the use cases: the status and body  *)
(* each request is answered with, storage faults inside the handlers,      *)
(* bearer authentication by access token and the login rate limiter.       *)
(***************************************************************************)
EXTENDS Integers, FiniteSets, Sequences, Bags, TLC

\* ---------------------------------------------------------------- bounds
MaxTok == 3        \* raw refresh tokens that can be generated in one run
MaxTime == 2       \* last value of the wall clock
RefreshTtl == 1    \* refresh-token lifetime in clock ticks (7 days, scaled)
AccessTtl == 1     \* access-token lifetime in clock ticks (30 minutes, scaled)
LimitWindow == 2   \* the limiter's "minute", in limiter clock ticks
MaxLTime == 2      \* last value of the limiter clock
ApiTok == 2        \* raw refresh tokens generated in a run of the HTTP routes
OtherHits == 2     \* login requests of the second client address in a burst

Users == {"u1", "u2"}
NoUser == "nobody"

Scopes ==
    { [accounts |-> {"u1"}, workers |-> 2, lifecycle |-> FALSE],
      [accounts |-> Users,  workers |-> 1, lifecycle |-> FALSE],
      [accounts |-> {"u1"}, workers |-> 1, lifecycle |-> TRUE] }

\* A raw token no Login or Rotate ever returned ("this-is-not-a-valid-token").
Forged == 0
RawTokens == 0..MaxTok

VARIABLES
    scope,       \* registered accounts, request workers, account lifecycle on/off
    now,         \* wall clock (datetime.now(timezone.utc))
    store,       \* refresh_tokens table: token_hash -> row
    nextTok,     \* next value of the random token generator
    is_active,   \* users.is_active
    deleted,     \* users.deleted_at IS NOT NULL
    inflight,    \* bag of refresh_access_token calls in progress (their locals)
    last,        \* the response returned by the latest step, if it returned one
    owner,       \* history: raw token -> account it was returned to
    everStored,  \* history: <<owner, hash>> of every row ever inserted
    watch,       \* an arbitrary token, fixed for the run, whose history is kept
    wRot,        \* history: Rotate(watch) calls that returned success (capped at 2)
    wUses,       \* history: Rotate(watch) calls started (capped at 2)
    wOut,        \* history: a Logout(watch) has returned Ok
    wDoomed,     \* history: watch was issued before a cascade of its owner
    wParent      \* history: the token whose rotation returned watch (Forged: none)

VARIABLES
    http,        \* the HTTP response to the latest request, as the caller sees it
    cause,       \* the statement of the handler that produced that response
    limiter,     \* slowapi storage: client address -> hit counter and its expiry
    ltime,       \* wall clock at the limiter's resolution
    reached      \* history: client, limiter time -> login requests that reached login_user

apiVars == <<http, cause, limiter, ltime, reached>>

VARIABLES
    parent       \* history: raw token -> the token whose rotation generated it
                 \* (itself: generated by a login; Forged: not generated yet)

vars == <<scope, now, store, nextTok, is_active, deleted, inflight, last,
          owner, everStored, watch, wRot, wUses, wOut, wDoomed, wParent,
          http, cause, limiter, ltime, reached, parent>>

\* ------------------------------------------------------- token primitives
\* hash_refresh_token: deterministic one-way digest of the raw value.
hash_refresh_token(tok) == <<"sha256", tok>>

\* generate_refresh_token: fresh random value, its hash, now + refresh ttl.
generate_refresh_token(n, t) ==
    [raw |-> n, token_hash |-> hash_refresh_token(n), expires_at |-> t + RefreshTtl]

\* ------------------------------------------------- RefreshTokenRepository
NoRow == [found |-> FALSE, user_id |-> NoUser, token_hash |-> hash_refresh_token(Forged),
          expires_at |-> 0, is_revoked |-> FALSE, created_at |-> 0]

\* Variant: the row is inserted already revoked.
Row_revoked(u, h, exp, t) ==
    [found |-> TRUE, user_id |-> u, token_hash |-> h,
     expires_at |-> exp, is_revoked |-> TRUE, created_at |-> t]

Row(u, h, exp, t) ==
    [found |-> TRUE, user_id |-> u, token_hash |-> h,
     expires_at |-> exp, is_revoked |-> FALSE, created_at |-> t]

\* unique index on token_hash: an insert of a present hash is rejected.
CanCreate(s, h) == h \notin DOMAIN s

\* Variant: the row is inserted for the first registered account.
create_first(s, u, h, exp, t) ==
    IF CanCreate(s, h) THEN (h :> Row("u1", h, exp, t)) @@ s ELSE s

create(s, u, h, exp, t) ==
    IF CanCreate(s, h) THEN (h :> Row(u, h, exp, t)) @@ s ELSE s

get_by_hash(s, h) == IF h \in DOMAIN s THEN s[h] ELSE NoRow

\* Variant: the flag is never written.
revoke_noop(s, h) == s

revoke(s, h) == [s EXCEPT ![h].is_revoked = TRUE]

\* Variant: the flag of every row of the user is inverted.
revoke_all_toggle(s, u) ==
    [h \in DOMAIN s |->
        IF s[h].user_id = u THEN [s[h] EXCEPT !.is_revoked = ~@] ELSE s[h]]

\* Variant: nothing is done when the user already has several revoked rows.
revoke_all_once(s, u) ==
    IF Cardinality({h \in DOMAIN s : s[h].user_id = u /\ s[h].is_revoked}) > 1
    THEN s
    ELSE [h \in DOMAIN s |->
            IF s[h].user_id = u THEN [s[h] EXCEPT !.is_revoked = TRUE] ELSE s[h]]

\* Variant: the filter on user_id is missing.
revoke_all_everyone(s, u) ==
    [h \in DOMAIN s |-> [s[h] EXCEPT !.is_revoked = TRUE]]

\* Variant: the query also filters on expires_at, as delete_expired does.
revoke_all_unexpired(s, u) ==
    [h \in DOMAIN s |->
        IF s[h].user_id = u /\ ~s[h].is_revoked /\ ~(s[h].expires_at < now)
        THEN [s[h] EXCEPT !.is_revoked = TRUE]
        ELSE s[h]]

\* Variant: only one of the selected rows is revoked.
revoke_all_one(s, u) ==
    LET rows == {h \in DOMAIN s : s[h].user_id = u /\ ~s[h].is_revoked}
    IN  IF rows = {} THEN s
        ELSE LET h1 == CHOOSE h \in rows : \A k \in rows : h[2] <= k[2]
             IN  [s EXCEPT ![h1].is_revoked = TRUE]

\* Variant: the filter selects no row.
revoke_all_none(s, u) == s

revoke_all_for_user(s, u) ==
    [h \in DOMAIN s |->
        IF s[h].user_id = u /\ ~s[h].is_revoked
        THEN [s[h] EXCEPT !.is_revoked = TRUE]
        ELSE s[h]]

\* Variant: a row that expires at this very instant is removed too.
delete_expired_inclusive(s, u, t) ==
    [h \in {k \in DOMAIN s : ~(s[k].user_id = u /\ s[k].expires_at <= t)} |-> s[h]]

\* Variant: the housekeeping also removes the revoked rows of the user.
delete_expired_or_revoked(s, u, t) ==
    [h \in {k \in DOMAIN s :
               ~(s[k].user_id = u /\ (s[k].expires_at < t \/ s[k].is_revoked))} |-> s[h]]

\* Variant: the filter on user_id is missing.
delete_expired_anyone(s, u, t) ==
    [h \in {k \in DOMAIN s : ~(s[k].expires_at < t)} |-> s[h]]

\* The rows the query of revoke_all_for_user selects, and the value the
\* method returns: their number.
revoke_all_tokens(s, u) ==
    {h \in DOMAIN s : s[h].user_id = u /\ s[h].is_revoked = FALSE}
revoke_all_returned(s, u) == Cardinality(revoke_all_tokens(s, u))

delete_expired(s, u, t) ==
    [h \in {k \in DOMAIN s : ~(s[k].user_id = u /\ s[k].expires_at < t)} |-> s[h]]

\* Variant: the comparison is reversed.
IsExpired_reversed(t, exp) == t < exp

\* The expiry test of refresh_access_token.
IsExpired(t, exp) == t > exp

\* --------------------------------------------------------- UserRepository
\* get_by_id / get_by_email exclude soft-deleted users.
UserFound(u) == u \in scope.accounts /\ ~deleted[u]

\* ------------------------------------------------------------- responses
\* A response: what was asked, what the handler saw, what it answered.
\* cmp relates the clock read by the handler to the loaded row's
\* expires_at; the late* fields say what had already happened to the
\* token when the call started.
NoResp == [op |-> "none", tok |-> Forged, user |-> NoUser, res |-> "none",
           out |-> Forged, found |-> FALSE, wasRevoked |-> FALSE, cmp |-> "na",
           lateRot |-> FALSE, lateOut |-> FALSE, lateCasc |-> FALSE]

Cmp(t, exp) == IF t < exp THEN "lt" ELSE IF t = exp THEN "eq" ELSE "gt"

Resp(o, c, r, new) ==
    [op |-> o, tok |-> c.tok, user |-> c.snap.user_id, res |-> r, out |-> new,
     found |-> c.snap.found, wasRevoked |-> c.snap.is_revoked, cmp |-> c.cmp,
     lateRot |-> c.lateRot, lateOut |-> c.lateOut, lateCasc |-> c.lateCasc]

\* The response is kept in full when it concerns the watched token and
\* dropped otherwise.
Observe(r) ==
    IF r.tok = watch \/ r.out = watch THEN r
    ELSE NoResp

Inc2(n) == IF n < 2 THEN n + 1 ELSE n

\* ------------------------------------------------------------ HTTP layer
Clients == {"10.0.0.1", "10.0.0.2"}
LTimes == 0..MaxLTime

\* @limiter.limit("5/minute") on POST /auth/login.
LoginLimit == 5

NoAccess == [kind |-> "none", sub |-> NoUser, exp |-> 0]

NoHttp == [op |-> "none", status |-> 0, detail |-> "", access |-> NoAccess,
           refresh |-> Forged, user |-> NoUser]

\* An empty limiter slot: no live window for the key.
NoWindow == [count |-> 0, expiry |-> 0]

\* What a call of a use case or of a repository ends with: it returns, or
\* it raises; at names the statement that ended it.
Returned(at) == [kind |-> "return", msg |-> "", at |-> at]
ValueError(msg, at) == [kind |-> "ValueError", msg |-> msg, at |-> at]
StorageError(at) == [kind |-> "SQLAlchemyError", msg |-> "", at |-> at]

\* Variant: an unknown identifier gets a message of its own.
login_result_oracle(ident, pwOk) ==
    IF ~UserFound(ident) THEN ValueError("Unknown email", "no_account")
    ELSE IF ~pwOk THEN ValueError("Invalid email or password", "wrong_password")
    ELSE IF ~is_active[ident] THEN ValueError("Account is inactive", "inactive")
    ELSE Returned("ok")

\* Variant: the is_active check comes before the password check.
login_result_active_first(ident, pwOk) ==
    IF ~UserFound(ident) THEN ValueError("Invalid email or password", "no_account")
    ELSE IF ~is_active[ident] THEN ValueError("Account is inactive", "inactive")
    ELSE IF ~pwOk THEN ValueError("Invalid email or password", "wrong_password")
    ELSE Returned("ok")

\* login_user: the checks before any token is issued.
login_result(ident, pwOk) ==
    IF ~UserFound(ident) THEN ValueError("Invalid email or password", "no_account")
    ELSE IF ~pwOk THEN ValueError("Invalid email or password", "wrong_password")
    ELSE IF ~is_active[ident] THEN ValueError("Account is inactive", "inactive")
    ELSE Returned("ok")

\* refresh_access_token: the checks on the loaded row, in the code's order.
refresh_result(snap, t) ==
    IF ~snap.found THEN ValueError("Invalid refresh token", "unknown")
    ELSE IF snap.is_revoked
    THEN ValueError("Refresh token has already been used. All sessions have been revoked.",
                    "reuse")
    ELSE IF IsExpired(t, snap.expires_at)
    THEN ValueError("Refresh token has expired", "expired")
    ELSE IF ~UserFound(snap.user_id) \/ ~is_active[snap.user_id]
    THEN ValueError("User account not found or inactive", "unavailable")
    ELSE Returned("proceed")

\* Variant: logging out an unknown token succeeds.
logout_result_lenient(snap) == Returned("ok")

\* logout_user: the check on the loaded row.
logout_result(snap) ==
    IF ~snap.found THEN ValueError("Invalid refresh token", "unknown")
    ELSE Returned("ok")

\* Variant: the route catches every exception.
route_catch_all(op, failStatus, r, body) ==
    IF r.kind = "return" THEN [body EXCEPT !.op = op, !.status = 200]
    ELSE [NoHttp EXCEPT !.op = op, !.status = failStatus, !.detail = r.msg]

\* A route of auth.py: try the use case; except ValueError as e raises
\* HTTPException(failStatus, detail=str(e)); any other exception leaves the
\* route and the framework answers 500.
route(op, failStatus, r, body) ==
    IF r.kind = "return" THEN [body EXCEPT !.op = op, !.status = 200]
    ELSE IF r.kind = "ValueError"
    THEN [NoHttp EXCEPT !.op = op, !.status = failStatus, !.detail = r.msg]
    ELSE [NoHttp EXCEPT !.op = op, !.status = 500, !.detail = "Internal Server Error"]

TokenResponse(access, refresh, u) ==
    [NoHttp EXCEPT !.access = access, !.refresh = refresh, !.user = u]

\* ---- access tokens (jwt.py)
NoSub == "absent"          \* the payload has no "sub"
BadSub == "not-a-uuid"     \* a "sub" that UUID() rejects
AccessKinds == {"jwt", "bad_signature", "malformed"}
AccessTokens ==
    [kind : AccessKinds, sub : Users \cup {NoSub, BadSub}, exp : 0..(MaxTime + AccessTtl)]

create_access_token(u, t) == [kind |-> "jwt", sub |-> u, exp |-> t + AccessTtl]

\* Why jwt.decode raises JWTError on the token at time t ("none": it does not).
JWTError(tok, t) ==
    IF tok.kind = "malformed" THEN "malformed"
    ELSE IF tok.kind = "bad_signature" THEN "bad_signature"
    ELSE IF t > tok.exp THEN "expired"
    ELSE "none"

NoPayload == [decoded |-> FALSE, sub |-> NoSub]

decode_access_token(tok, t) ==
    IF JWTError(tok, t) # "none" THEN NoPayload
    ELSE [decoded |-> TRUE, sub |-> tok.sub]

\* NoUser stands for the None it returns.
get_user_id_from_token(tok, t) ==
    LET payload == decode_access_token(tok, t)
    IN  IF ~payload.decoded THEN NoUser
        ELSE IF payload.sub = NoSub THEN NoUser
        ELSE IF payload.sub \notin Users THEN NoUser
        ELSE payload.sub

Unauthorized(op, detail) == [NoHttp EXCEPT !.op = op, !.status = 401, !.detail = detail]

\* Variant: a session must still be open in the refresh-token table.
get_current_user_stateful(cred, t) ==
    LET user_id == get_user_id_from_token(cred, t)
    IN  IF cred = NoAccess THEN Unauthorized("auth", "Not authenticated")
        ELSE IF user_id = NoUser
        THEN Unauthorized("auth", "Invalid authentication credentials")
        ELSE IF ~UserFound(user_id) THEN Unauthorized("auth", "User not found")
        ELSE IF ~is_active[user_id]
        THEN [NoHttp EXCEPT !.op = "auth", !.status = 403, !.detail = "Inactive user"]
        ELSE IF ~\E h \in DOMAIN store : store[h].user_id = user_id /\ ~store[h].is_revoked
        THEN Unauthorized("auth", "Session revoked")
        ELSE [NoHttp EXCEPT !.op = "auth", !.status = 200, !.user = user_id]

\* Variant: a soft-deleted account is still found.
get_current_user_undeleted(cred, t) ==
    LET user_id == get_user_id_from_token(cred, t)
    IN  IF cred = NoAccess THEN Unauthorized("auth", "Not authenticated")
        ELSE IF user_id = NoUser
        THEN Unauthorized("auth", "Invalid authentication credentials")
        ELSE IF user_id \notin scope.accounts THEN Unauthorized("auth", "User not found")
        ELSE IF ~is_active[user_id]
        THEN [NoHttp EXCEPT !.op = "auth", !.status = 403, !.detail = "Inactive user"]
        ELSE [NoHttp EXCEPT !.op = "auth", !.status = 200, !.user = user_id]

\* Variant: an expired token is told apart from the other failures.
get_current_user_verbose(cred, t) ==
    LET user_id == get_user_id_from_token(cred, t)
    IN  IF cred = NoAccess THEN Unauthorized("auth", "Not authenticated")
        ELSE IF user_id = NoUser
        THEN Unauthorized("auth", IF JWTError(cred, t) = "expired" THEN "Token expired"
                                  ELSE "Invalid authentication credentials")
        ELSE IF ~UserFound(user_id) THEN Unauthorized("auth", "User not found")
        ELSE IF ~is_active[user_id]
        THEN [NoHttp EXCEPT !.op = "auth", !.status = 403, !.detail = "Inactive user"]
        ELSE [NoHttp EXCEPT !.op = "auth", !.status = 200, !.user = user_id]

\* get_current_user: the response of a route that depends on it.
get_current_user(cred, t) ==
    LET user_id == get_user_id_from_token(cred, t)
    IN  IF cred = NoAccess THEN Unauthorized("auth", "Not authenticated")
        ELSE IF user_id = NoUser
        THEN Unauthorized("auth", "Invalid authentication credentials")
        ELSE IF ~UserFound(user_id) THEN Unauthorized("auth", "User not found")
        ELSE IF ~is_active[user_id]
        THEN [NoHttp EXCEPT !.op = "auth", !.status = 403, !.detail = "Inactive user"]
        ELSE [NoHttp EXCEPT !.op = "auth", !.status = 200, !.user = user_id]

\* The statement of get_current_user that answers.
AuthCause(cred, t) ==
    IF cred = NoAccess THEN "no_credentials"
    ELSE IF JWTError(cred, t) # "none" THEN JWTError(cred, t)
    ELSE IF cred.sub = NoSub THEN "no_sub"
    ELSE IF cred.sub \notin Users THEN "bad_sub"
    ELSE IF ~UserFound(cred.sub) THEN "user_not_found"
    ELSE IF ~is_active[cred.sub] THEN "inactive"
    ELSE "ok"

\* ---- rate limiter (slowapi, fixed-window strategy, in-memory storage)
\* storage.get: a counter whose expiry has passed is gone.
LiveWindow(l, c, t) == IF l[c].expiry <= t THEN NoWindow ELSE l[c]

\* Variant: the counter is never incremented.
hit_free(l, c, t) == l

\* limiter.hit: increment the key's counter; a counter that starts at this
\* hit expires one window later.  Counts above the limit are kept as
\* LoginLimit + 1.
hit(l, c, t) ==
    LET w == LiveWindow(l, c, t)
    IN  [l EXCEPT ![c] =
            [count |-> IF w.count <= LoginLimit THEN w.count + 1 ELSE w.count,
             expiry |-> IF w.count = 0 THEN t + LimitWindow ELSE w.expiry]]

\* The request passes when the counter after the hit is within the limit.
WithinLimit(l, c) == l[c].count <= LoginLimit

ApiIdle ==
    /\ http = NoHttp
    /\ cause = "none"
    /\ limiter = [c \in Clients |-> NoWindow]
    /\ ltime = 0
    /\ reached = [c \in Clients |-> [t \in LTimes |-> 0]]

InitIn(sc) ==
    /\ scope = sc
    /\ now = 0
    /\ store = << >>
    /\ nextTok = 1
    /\ is_active = [u \in Users |-> TRUE]
    /\ deleted = [u \in Users |-> FALSE]
    /\ inflight = EmptyBag
    /\ last = NoResp
    /\ owner = [t \in 1..MaxTok |-> NoUser]
    /\ everStored = {}
    /\ watch \in 1..MaxTok
    /\ wRot = 0
    /\ wUses = 0
    /\ wOut = FALSE
    /\ wDoomed = FALSE
    /\ wParent = Forged

\* No token has been generated.
NoLineage == parent = [t \in 1..MaxTok |-> Forged]

\* The step inserted a row for the token generated from p (Forged: by a
\* login); every other step leaves the lineages alone.
Lineage(p) ==
    parent' = IF everStored' # everStored
              THEN [parent EXCEPT ![nextTok] = IF p = Forged THEN nextTok ELSE p]
              ELSE parent

Init == (\E sc \in Scopes : InitIn(sc)) /\ ApiIdle /\ NoLineage

\* ------------------------------------------------------------ operations
\* UserUseCases.login_user, one request.
Login(ident, pwOk) ==
    /\ LET r == [NoResp EXCEPT !.op = "login", !.user = ident]
           g == generate_refresh_token(nextTok, now)
           s1 == delete_expired(store, ident, now)
       IN  IF ~UserFound(ident) \/ ~pwOk
           THEN /\ last' = Observe([r EXCEPT !.res = "invalid_credentials"])
                /\ UNCHANGED <<store, nextTok, owner, everStored>>
           ELSE IF ~is_active[ident]
           THEN /\ last' = Observe([r EXCEPT !.res = "account_inactive"])
                /\ UNCHANGED <<store, nextTok, owner, everStored>>
           ELSE /\ nextTok <= MaxTok
                /\ nextTok' = nextTok + 1
                /\ IF CanCreate(s1, g.token_hash)
                   THEN /\ store' = create(s1, ident, g.token_hash, g.expires_at, now)
                        /\ owner' = [owner EXCEPT ![g.raw] = ident]
                        /\ everStored' = everStored \cup {<<ident, g.token_hash>>}
                        /\ last' = Observe([r EXCEPT !.res = "ok", !.out = g.raw])
                   ELSE /\ store' = s1
                        /\ UNCHANGED <<owner, everStored>>
                        /\ last' = Observe([r EXCEPT !.res = "ok"])
    /\ UNCHANGED <<scope, now, is_active, deleted, inflight,
                   watch, wRot, wUses, wOut, wDoomed, wParent>>

\* Variant: the failure paths close out every session of the owner, as
\* reuse detection does.
RevokeLoaded_all(c, r) ==
    /\ store' = revoke_all_for_user(store, c.snap.user_id)
    /\ last' = Observe(Resp("rotate", c, r, Forged))

\* revoke(stored) flushes an UPDATE of the loaded row; a row that was
\* hard-deleted meanwhile makes the flush fail (no row matched).
RevokeLoaded(c, r) ==
    IF c.snap.token_hash \in DOMAIN store
    THEN /\ store' = revoke(store, c.snap.token_hash)
         /\ last' = Observe(Resp("rotate", c, r, Forged))
    ELSE /\ store' = store
         /\ last' = Observe(Resp("rotate", c, "server_error", Forged))

\* refresh_access_token up to its first write: look the token up, reuse
\* detection, expiry check, owner check.
RotateCheck(tok) ==
    /\ BagCardinality(inflight) < scope.workers
    /\ tok \in 0..(nextTok - 1)
    /\ LET snap == get_by_hash(store, hash_refresh_token(tok))
           u == snap.user_id
           c == [pc |-> "revoke", tok |-> tok, snap |-> snap,
                 cmp |-> IF snap.found THEN Cmp(now, snap.expires_at) ELSE "na",
                 lateRot |-> (tok = watch /\ wRot > 0),
                 lateOut |-> (tok = watch /\ wOut),
                 lateCasc |-> (tok = watch /\ wDoomed)]
       IN  IF ~snap.found
           THEN /\ last' = Observe(Resp("rotate", c, "invalid_token", Forged))
                /\ UNCHANGED <<store, inflight, wDoomed>>
           ELSE IF snap.is_revoked
           THEN /\ store' = revoke_all_for_user(store, u)
                /\ wDoomed' = (wDoomed \/ owner[watch] = u)
                /\ last' = Observe(Resp("rotate", c, "reuse", Forged))
                /\ UNCHANGED inflight
           ELSE IF IsExpired(now, snap.expires_at)
           THEN /\ RevokeLoaded(c, "expired")
                /\ UNCHANGED <<inflight, wDoomed>>
           ELSE IF ~UserFound(u) \/ ~is_active[u]
           THEN /\ RevokeLoaded(c, "unavailable")
                /\ UNCHANGED <<inflight, wDoomed>>
           ELSE /\ inflight' = inflight (+) SetToBag({c})
                /\ last' = NoResp
                /\ UNCHANGED <<store, wDoomed>>
    /\ wUses' = IF tok = watch THEN Inc2(wUses) ELSE wUses
    /\ UNCHANGED <<scope, now, nextTok, is_active, deleted,
                   owner, everStored, watch, wRot, wOut, wParent>>

\* Variant: the revoke is a conditional write (UPDATE ... WHERE is_revoked =
\* false); a row that is already revoked sends the call to reuse detection.
RotateRevoke_cas(c) ==
    /\ BagIn(c, inflight)
    /\ c.pc = "revoke"
    /\ LET rest == inflight (-) SetToBag({c})
           h == c.snap.token_hash
       IN  IF h \in DOMAIN store /\ ~store[h].is_revoked
           THEN /\ store' = revoke(store, h)
                /\ inflight' = rest (+) SetToBag({[c EXCEPT !.pc = "create"]})
                /\ last' = NoResp
           ELSE /\ store' = revoke_all_for_user(store, c.snap.user_id)
                /\ inflight' = rest
                /\ last' = Observe(Resp("rotate", c, "reuse", Forged))
    /\ UNCHANGED <<scope, now, nextTok, is_active, deleted,
                   owner, everStored, watch, wRot, wUses, wOut, wDoomed, wParent>>

\* refresh_access_token: revoke the used token (commit).
RotateRevoke(c) ==
    /\ BagIn(c, inflight)
    /\ c.pc = "revoke"
    /\ LET rest == inflight (-) SetToBag({c})
       IN  IF c.snap.token_hash \in DOMAIN store
           THEN /\ store' = revoke(store, c.snap.token_hash)
                /\ inflight' = rest (+) SetToBag({[c EXCEPT !.pc = "create"]})
                /\ last' = NoResp
           ELSE /\ store' = store
                /\ inflight' = rest
                /\ last' = Observe(Resp("rotate", c, "server_error", Forged))
    /\ UNCHANGED <<scope, now, nextTok, is_active, deleted,
                   owner, everStored, watch, wRot, wUses, wOut, wDoomed, wParent>>

\* Variant: the response carries the presented token instead of the new one.
RotateCreate_same(c) ==
    /\ BagIn(c, inflight)
    /\ c.pc = "create"
    /\ nextTok <= MaxTok
    /\ nextTok' = nextTok + 1
    /\ inflight' = inflight (-) SetToBag({c})
    /\ LET u == c.snap.user_id
           g == generate_refresh_token(nextTok, now)
       IN  /\ store' = create(store, u, g.token_hash, g.expires_at, now)
           /\ everStored' = everStored \cup {<<u, g.token_hash>>}
           /\ wRot' = IF c.tok = watch THEN Inc2(wRot) ELSE wRot
           /\ last' = Observe(Resp("rotate", c, "ok", c.tok))
    /\ UNCHANGED <<scope, now, is_active, deleted, watch, wUses, wOut,
                   wDoomed, owner, wParent>>

\* Variant: the successor inherits the expiry of the token it replaces
\* when that is earlier (an absolute session lifetime).
RotateCreate_capped(c) ==
    /\ BagIn(c, inflight)
    /\ c.pc = "create"
    /\ nextTok <= MaxTok
    /\ nextTok' = nextTok + 1
    /\ inflight' = inflight (-) SetToBag({c})
    /\ LET u == c.snap.user_id
           g == generate_refresh_token(nextTok, now)
           exp == IF c.snap.expires_at < g.expires_at
                  THEN c.snap.expires_at ELSE g.expires_at
       IN  /\ store' = create(store, u, g.token_hash, exp, now)
           /\ owner' = [owner EXCEPT ![g.raw] = u]
           /\ wParent' = IF g.raw = watch THEN c.tok ELSE wParent
           /\ everStored' = everStored \cup {<<u, g.token_hash>>}
           /\ wRot' = IF c.tok = watch THEN Inc2(wRot) ELSE wRot
           /\ last' = Observe(Resp("rotate", c, "ok", g.raw))
    /\ UNCHANGED <<scope, now, is_active, deleted, watch, wUses, wOut, wDoomed>>

\* refresh_access_token: issue and persist the new tokens, return them.
RotateCreate(c) ==
    /\ BagIn(c, inflight)
    /\ c.pc = "create"
    /\ nextTok <= MaxTok
    /\ nextTok' = nextTok + 1
    /\ inflight' = inflight (-) SetToBag({c})
    /\ LET u == c.snap.user_id
           g == generate_refresh_token(nextTok, now)
       IN  IF CanCreate(store, g.token_hash)
           THEN /\ store' = create(store, u, g.token_hash, g.expires_at, now)
                /\ owner' = [owner EXCEPT ![g.raw] = u]
                /\ wParent' = IF g.raw = watch THEN c.tok ELSE wParent
                /\ everStored' = everStored \cup {<<u, g.token_hash>>}
                /\ wRot' = IF c.tok = watch THEN Inc2(wRot) ELSE wRot
                /\ last' = Observe(Resp("rotate", c, "ok", g.raw))
           ELSE /\ UNCHANGED <<store, owner, everStored, wRot, wParent>>
                /\ last' = Observe(Resp("rotate", c, "server_error", Forged))
    /\ UNCHANGED <<scope, now, is_active, deleted, watch, wUses, wOut, wDoomed>>

\* Variant: a token that is already revoked is refused.
Logout_strict(tok) ==
    /\ tok \in 0..(nextTok - 1)
    /\ LET snap == get_by_hash(store, hash_refresh_token(tok))
           c == [pc |-> "logout", tok |-> tok, snap |-> snap,
                 cmp |-> IF snap.found THEN Cmp(now, snap.expires_at) ELSE "na",
                 lateRot |-> FALSE, lateOut |-> (tok = watch /\ wOut), lateCasc |-> FALSE]
       IN  IF ~snap.found \/ snap.is_revoked
           THEN /\ last' = Observe(Resp("logout", c, "token_not_found", Forged))
                /\ UNCHANGED <<store, wOut>>
           ELSE /\ store' = revoke(store, snap.token_hash)
                /\ wOut' = (wOut \/ tok = watch)
                /\ last' = Observe(Resp("logout", c, "ok", Forged))
    /\ UNCHANGED <<scope, now, nextTok, is_active, deleted, inflight,
                   owner, everStored, watch, wRot, wUses, wDoomed, wParent>>

\* Variant: logout revokes every session of the account.
Logout_all(tok) ==
    /\ tok \in 0..(nextTok - 1)
    /\ LET snap == get_by_hash(store, hash_refresh_token(tok))
           c == [pc |-> "logout", tok |-> tok, snap |-> snap,
                 cmp |-> IF snap.found THEN Cmp(now, snap.expires_at) ELSE "na",
                 lateRot |-> FALSE, lateOut |-> (tok = watch /\ wOut), lateCasc |-> FALSE]
       IN  IF ~snap.found
           THEN /\ last' = Observe(Resp("logout", c, "token_not_found", Forged))
                /\ UNCHANGED <<store, wOut>>
           ELSE /\ store' = revoke_all_for_user(store, snap.user_id)
                /\ wOut' = (wOut \/ tok = watch)
                /\ last' = Observe(Resp("logout", c, "ok", Forged))
    /\ UNCHANGED <<scope, now, nextTok, is_active, deleted, inflight,
                   owner, everStored, watch, wRot, wUses, wDoomed, wParent>>

\* Variant: the revoke is skipped (the condition is inverted).
Logout_skip(tok) ==
    /\ tok \in 0..(nextTok - 1)
    /\ LET snap == get_by_hash(store, hash_refresh_token(tok))
           c == [pc |-> "logout", tok |-> tok, snap |-> snap,
                 cmp |-> IF snap.found THEN Cmp(now, snap.expires_at) ELSE "na",
                 lateRot |-> FALSE, lateOut |-> (tok = watch /\ wOut), lateCasc |-> FALSE]
       IN  IF ~snap.found
           THEN /\ last' = Observe(Resp("logout", c, "token_not_found", Forged))
                /\ UNCHANGED <<store, wOut>>
           ELSE /\ store' = store
                /\ wOut' = (wOut \/ tok = watch)
                /\ last' = Observe(Resp("logout", c, "ok", Forged))
    /\ UNCHANGED <<scope, now, nextTok, is_active, deleted, inflight,
                   owner, everStored, watch, wRot, wUses, wDoomed, wParent>>

\* UserUseCases.logout_user, one request.
Logout(tok) ==
    /\ tok \in 0..(nextTok - 1)
    /\ LET snap == get_by_hash(store, hash_refresh_token(tok))
           c == [pc |-> "logout", tok |-> tok, snap |-> snap,
                 cmp |-> IF snap.found THEN Cmp(now, snap.expires_at) ELSE "na",
                 lateRot |-> FALSE, lateOut |-> (tok = watch /\ wOut), lateCasc |-> FALSE]
       IN  IF ~snap.found
           THEN /\ last' = Observe(Resp("logout", c, "token_not_found", Forged))
                /\ UNCHANGED <<store, wOut>>
           ELSE /\ store' = IF ~snap.is_revoked
                            THEN revoke(store, snap.token_hash) ELSE store
                /\ wOut' = (wOut \/ tok = watch)
                /\ last' = Observe(Resp("logout", c, "ok", Forged))
    /\ UNCHANGED <<scope, now, nextTok, is_active, deleted, inflight,
                   owner, everStored, watch, wRot, wUses, wDoomed, wParent>>

\* DELETE /users/me: soft delete of the authenticated, active account.
DeleteUser(u) ==
    /\ scope.lifecycle
    /\ UserFound(u)
    /\ is_active[u]
    /\ deleted' = [deleted EXCEPT ![u] = TRUE]
    /\ last' = NoResp
    /\ UNCHANGED <<scope, now, store, nextTok, is_active, inflight,
                   owner, everStored, watch, wRot, wUses, wOut, wDoomed, wParent>>

\* The identity subsystem deactivates an account (users.is_active = false).
SetInactive(u) ==
    /\ scope.lifecycle
    /\ UserFound(u)
    /\ is_active[u]
    /\ is_active' = [is_active EXCEPT ![u] = FALSE]
    /\ last' = NoResp
    /\ UNCHANGED <<scope, now, store, nextTok, deleted, inflight,
                   owner, everStored, watch, wRot, wUses, wOut, wDoomed, wParent>>

\* The wall clock advances.
Tick ==
    /\ now < MaxTime
    /\ now' = now + 1
    /\ last' = NoResp
    /\ UNCHANGED <<scope, store, nextTok, is_active, deleted, inflight,
                   owner, everStored, watch, wRot, wUses, wOut, wDoomed, wParent>>

Calls == BagToSet(inflight)

\* The use cases and the table alone; the HTTP layer is left out.
Next ==
    \/ \E ident \in scope.accounts \cup {NoUser}, pwOk \in BOOLEAN :
          Login(ident, pwOk) /\ Lineage(Forged) /\ UNCHANGED apiVars
    \/ \E tok \in RawTokens : RotateCheck(tok) /\ UNCHANGED <<apiVars, parent>>
    \/ \E c \in Calls : RotateRevoke(c) /\ UNCHANGED <<apiVars, parent>>
    \/ \E c \in Calls : RotateCreate(c) /\ Lineage(c.tok) /\ UNCHANGED apiVars
    \/ \E tok \in RawTokens : Logout(tok) /\ UNCHANGED <<apiVars, parent>>
    \/ \E u \in Users : DeleteUser(u) /\ UNCHANGED <<apiVars, parent>>
    \/ \E u \in Users : SetInactive(u) /\ UNCHANGED <<apiVars, parent>>
    \/ Tick /\ UNCHANGED <<apiVars, parent>>

Spec == Init /\ [][Next]_vars

TypeOK ==
    /\ now \in 0..MaxTime
    /\ nextTok \in 1..(MaxTok + 1)
    /\ \A h \in DOMAIN store : store[h].token_hash = h /\ store[h].found

\* ====================================================== the HTTP routes
\* The same use cases behind their routes: rate limit, response mapping,
\* access tokens and storage faults.
idleVars == <<scope, now, store, nextTok, is_active, deleted, inflight,
              owner, everStored, watch, wRot, wUses, wOut, wDoomed, wParent>>

\* surface: which requests a run sends.  "login": login requests, with
\* storage faults, and account deactivation; "session": login, refresh and
\* logout, with storage faults in the latter two; "access": login, refresh
\* and logout without faults, authenticated requests and account deletion;
\* "burst": login requests only, timed at the limiter's resolution.
\* Outside a burst every login request arrives more than a limiter window
\* after the previous one of its client.
ApiScopes ==
    { [accounts |-> {"u1"}, workers |-> 1, lifecycle |-> TRUE, surface |-> "login"],
      [accounts |-> {"u1"}, workers |-> 1, lifecycle |-> FALSE, surface |-> "session"],
      [accounts |-> {"u1"}, workers |-> 1, lifecycle |-> TRUE, surface |-> "access"],
      [accounts |-> {"u1"}, workers |-> 1, lifecycle |-> FALSE, surface |-> "burst"] }

Burst == scope.surface = "burst"
Surface(kinds) == scope.surface \in kinds

RECURSIVE SumTo(_, _)
SumTo(f, n) == IF n < 0 THEN 0 ELSE f[n] + SumTo(f, n - 1)

\* In a burst the first client address sends any number of requests, the
\* second a few.
MaySend(c) ==
    Burst => (c = "10.0.0.1" \/ SumTo(reached[c], MaxLTime) < OtherHits)

ApiInit == (\E sc \in ApiScopes : InitIn(sc)) /\ watch = 1 /\ ApiIdle /\ NoLineage

\* Where a storage fault hits login_user's refresh-token block.
LoginFaults == {"none", "delete_expired", "create_commit", "create_refresh",
                "connection_lost"}

TooManyRequests ==
    [NoHttp EXCEPT !.op = "login", !.status = 429,
                   !.detail = "5 per 1 minute"]

\* Variant: the except clause does not clear the generated token.
LoginDegraded_keeps(ident, fault) ==
    LET g == generate_refresh_token(nextTok, now)
        s1 == delete_expired(store, ident, now)
    IN  /\ nextTok <= ApiTok
        /\ nextTok' = nextTok + 1
        /\ store' = IF fault = "delete_expired" THEN store
                    ELSE IF fault = "create_refresh"
                    THEN create(s1, ident, g.token_hash, g.expires_at, now)
                    ELSE s1
        /\ everStored' = IF fault = "create_refresh"
                         THEN everStored \cup {<<ident, g.token_hash>>}
                         ELSE everStored
        /\ last' = NoResp
        /\ http' = IF fault = "connection_lost"
                   THEN route("login", 401, StorageError("reload_user"), NoHttp)
                   ELSE route("login", 401, Returned("degraded"),
                              TokenResponse(create_access_token(ident, now), g.raw, ident))
        /\ cause' = fault
        /\ UNCHANGED <<scope, now, is_active, deleted, inflight, owner,
                       watch, wRot, wUses, wOut, wDoomed, wParent>>

\* login_user's refresh-token block when a repository call raises: the
\* exception is logged, the session rolled back, the refresh token dropped.
LoginDegraded(ident, fault) ==
    LET g == generate_refresh_token(nextTok, now)
        s1 == delete_expired(store, ident, now)
    IN  /\ nextTok <= ApiTok
        /\ nextTok' = nextTok + 1
        /\ store' = IF fault = "delete_expired" THEN store
                    ELSE IF fault = "create_refresh"
                    THEN create(s1, ident, g.token_hash, g.expires_at, now)
                    ELSE s1
        /\ everStored' = IF fault = "create_refresh"
                         THEN everStored \cup {<<ident, g.token_hash>>}
                         ELSE everStored
        /\ last' = NoResp
        /\ http' = IF fault = "connection_lost"
                   THEN route("login", 401, StorageError("reload_user"), NoHttp)
                   ELSE route("login", 401, Returned("degraded"),
                              TokenResponse(create_access_token(ident, now), Forged, ident))
        /\ cause' = fault
        /\ UNCHANGED <<scope, now, is_active, deleted, inflight, owner,
                       watch, wRot, wUses, wOut, wDoomed, wParent>>

\* POST /auth/login from client address c.
LoginRequest(c, ident, pwOk, fault) ==
    LET l1 == hit(limiter, c, ltime)
        r == login_result(ident, pwOk)
        g == generate_refresh_token(nextTok, now)
    IN  /\ MaySend(c)
        /\ limiter' = IF Burst THEN l1 ELSE limiter
        /\ UNCHANGED ltime
        /\ IF ~WithinLimit(l1, c)
           THEN /\ fault = "none"
                /\ http' = TooManyRequests
                /\ cause' = "rate_limit"
                /\ last' = NoResp
                /\ UNCHANGED <<reached, idleVars>>
           ELSE /\ r.kind = "return" => nextTok <= ApiTok
                /\ reached' = IF Burst
                              THEN [reached EXCEPT ![c][ltime] = @ + 1]
                              ELSE reached
                /\ IF fault = "none"
                   THEN /\ Login(ident, pwOk)
                        /\ http' = route("login", 401, r,
                                         TokenResponse(create_access_token(ident, now),
                                                       g.raw, ident))
                        /\ cause' = r.at
                   ELSE /\ Surface({"login"})
                        /\ r.kind = "return"
                        /\ LoginDegraded(ident, fault)

\* POST /auth/refresh up to its first write.
RefreshCheck(tok) ==
    LET snap == get_by_hash(store, hash_refresh_token(tok))
        r == refresh_result(snap, now)
    IN  /\ Surface({"session", "access"})
        /\ r.kind = "return" => nextTok <= ApiTok
        /\ RotateCheck(tok)
        /\ http' = IF r.kind = "return" THEN NoHttp ELSE route("refresh", 401, r, NoHttp)
        /\ cause' = IF r.kind = "return" THEN "none" ELSE r.at
        /\ UNCHANGED <<limiter, ltime, reached>>

\* POST /auth/refresh: the revoke of the presented token.
RefreshRevoke(c) ==
    /\ RotateRevoke(c)
    /\ IF c.snap.token_hash \in DOMAIN store
       THEN http' = NoHttp /\ cause' = "none"
       ELSE /\ http' = route("refresh", 401, StorageError("stale_row"), NoHttp)
            /\ cause' = "stale_row"
    /\ UNCHANGED <<limiter, ltime, reached>>

\* POST /auth/refresh: the new tokens and the response.
RefreshCreate(c) ==
    LET g == generate_refresh_token(nextTok, now)
        u == c.snap.user_id
    IN  /\ nextTok <= ApiTok
        /\ RotateCreate(c)
        /\ IF CanCreate(store, g.token_hash)
           THEN /\ http' = route("refresh", 401, Returned("ok"),
                                 TokenResponse(create_access_token(u, now), g.raw, u))
                /\ cause' = "ok"
           ELSE /\ http' = route("refresh", 401, StorageError("duplicate_hash"), NoHttp)
                /\ cause' = "duplicate_hash"
        /\ UNCHANGED <<limiter, ltime, reached>>

\* POST /auth/refresh: a repository call before the first write raises
\* (get_by_hash, revoke_all_for_user, revoke, get_by_id); nothing is written.
RefreshFault(tok) ==
    /\ Surface({"session"})
    /\ BagCardinality(inflight) < scope.workers
    /\ tok \in 0..(nextTok - 1)
    /\ http' = route("refresh", 401, StorageError("check"), NoHttp)
    /\ cause' = "storage_fault"
    /\ last' = Observe([NoResp EXCEPT !.op = "rotate", !.tok = tok, !.res = "server_error"])
    /\ wUses' = IF tok = watch THEN Inc2(wUses) ELSE wUses
    /\ UNCHANGED <<scope, now, store, nextTok, is_active, deleted, inflight,
                   owner, everStored, watch, wRot, wOut, wDoomed, wParent>>
    /\ UNCHANGED <<limiter, ltime, reached>>

\* POST /auth/refresh: revoke raises, or create raises at its commit
\* (nothing inserted) or after it (the successor is inserted, never returned).
RefreshFaultLate(c, persisted) ==
    LET g == generate_refresh_token(nextTok, now)
    IN  /\ Surface({"session"})
        /\ BagIn(c, inflight)
        /\ inflight' = inflight (-) SetToBag({c})
        /\ IF c.pc = "create" /\ nextTok <= ApiTok
           THEN /\ nextTok' = nextTok + 1
                /\ IF persisted /\ CanCreate(store, g.token_hash)
                   THEN /\ store' = create(store, c.snap.user_id, g.token_hash,
                                           g.expires_at, now)
                        /\ everStored' = everStored \cup {<<c.snap.user_id, g.token_hash>>}
                   ELSE UNCHANGED <<store, everStored>>
           ELSE /\ ~persisted
                /\ UNCHANGED <<store, everStored, nextTok>>
        /\ http' = route("refresh", 401, StorageError(c.pc), NoHttp)
        /\ cause' = "storage_fault"
        /\ last' = Observe(Resp("rotate", c, "server_error", Forged))
        /\ UNCHANGED <<scope, now, is_active, deleted, owner,
                       watch, wRot, wUses, wOut, wDoomed, wParent>>
        /\ UNCHANGED <<limiter, ltime, reached>>

\* POST /auth/logout; with fault, get_by_hash or revoke raises.
LogoutRequest(tok, fault) ==
    LET snap == get_by_hash(store, hash_refresh_token(tok))
    IN  /\ Surface({"session", "access"})
        /\ IF fault
           THEN /\ Surface({"session"})
                /\ tok \in 0..(nextTok - 1)
                /\ http' = route("logout", 400, StorageError("logout"), NoHttp)
                /\ cause' = "storage_fault"
                /\ last' = Observe([NoResp EXCEPT !.op = "logout", !.tok = tok,
                                                  !.res = "server_error"])
                /\ UNCHANGED idleVars
           ELSE /\ Logout(tok)
                /\ http' = route("logout", 400, logout_result(snap),
                                 [NoHttp EXCEPT !.detail = "Successfully logged out"])
                /\ cause' = logout_result(snap).at
        /\ UNCHANGED <<limiter, ltime, reached>>

\* GET /users/me (any route behind get_current_user) with a credential.
Authenticate(cred) ==
    /\ Surface({"access"})
    /\ http' = get_current_user(cred, now)
    /\ cause' = AuthCause(cred, now)
    /\ last' = NoResp
    /\ UNCHANGED <<idleVars, limiter, ltime, reached>>

\* DELETE /users/me by an authenticated caller.
DeleteMe(cred) ==
    LET r == get_current_user(cred, now)
    IN  /\ Surface({"access"})
        /\ r.status = 200
        /\ DeleteUser(r.user)
        /\ http' = [NoHttp EXCEPT !.op = "delete", !.status = 204]
        /\ cause' = "ok"
        /\ UNCHANGED <<limiter, ltime, reached>>

Deactivate(u) ==
    /\ Surface({"login", "access"})
    /\ SetInactive(u)
    /\ http' = NoHttp /\ cause' = "none"
    /\ UNCHANGED <<limiter, ltime, reached>>

\* A clock tick of the refresh-token scale: every limiter window has passed.
Elapse ==
    /\ ~Burst
    /\ Tick
    /\ http' = NoHttp /\ cause' = "none"
    /\ UNCHANGED <<limiter, ltime, reached>>

\* A tick of the limiter clock.
LTick ==
    /\ Burst
    /\ ltime < MaxLTime
    /\ ltime' = ltime + 1
    /\ http' = NoHttp /\ cause' = "none"
    /\ last' = NoResp
    /\ UNCHANGED <<idleVars, limiter, reached>>

Credentials == AccessTokens \cup {NoAccess}

ApiNext ==
    \/ \E c \in Clients, ident \in scope.accounts \cup {NoUser}, pwOk \in BOOLEAN,
          fault \in LoginFaults : LoginRequest(c, ident, pwOk, fault) /\ Lineage(Forged)
    \/ \E tok \in RawTokens : RefreshCheck(tok) /\ UNCHANGED parent
    \/ \E c \in Calls : RefreshRevoke(c) /\ UNCHANGED parent
    \/ \E c \in Calls : RefreshCreate(c) /\ Lineage(c.tok)
    \/ \E tok \in RawTokens : RefreshFault(tok) /\ UNCHANGED parent
    \/ \E c \in Calls, persisted \in BOOLEAN :
          RefreshFaultLate(c, persisted) /\ Lineage(c.tok)
    \/ \E tok \in RawTokens, fault \in BOOLEAN :
          LogoutRequest(tok, fault) /\ UNCHANGED parent
    \/ \E cred \in Credentials : Authenticate(cred) /\ UNCHANGED parent
    \/ \E cred \in Credentials : DeleteMe(cred) /\ UNCHANGED parent
    \/ \E u \in Users : Deactivate(u) /\ UNCHANGED parent
    \/ Elapse /\ UNCHANGED parent
    \/ LTick /\ UNCHANGED parent

ApiSpec == ApiInit /\ [][ApiNext]_vars

\* ---------------------------------------------------------- registration
\* users.email carries a unique constraint over all rows, soft-deleted ones
\* included, so the users table holds at most one row per email and an
\* account is named by its email: scope.accounts are the emails that have a
\* row, deleted the rows with deleted_at set.

\* UserRepository.exists_by_email: rows with the email and deleted_at IS NULL.
exists_by_email(email) ==
    Cardinality({u \in scope.accounts : u = email /\ ~deleted[u]}) > 0

\* The unique constraint on users.email rejects the INSERT.
EmailTaken(email) == email \in scope.accounts

\* register_user: ValueError when the lookup finds the email; otherwise
\* UserRepository.create, whose commit raises IntegrityError when the
\* email is held by any row.
register_result(email) ==
    IF exists_by_email(email) THEN ValueError("Email already registered", "exists")
    ELSE IF EmailTaken(email) THEN StorageError("unique_email")
    ELSE Returned("created")

\* POST /auth/register (201 on success, ValueError -> 400).  Requests of one
\* client arrive more than a limiter window apart.
RegisterRequest(email) ==
    LET r == register_result(email)
    IN  /\ http' = IF r.kind = "return"
                   THEN [NoHttp EXCEPT !.op = "register", !.status = 201, !.user = email]
                   ELSE route("register", 400, r, NoHttp)
        /\ cause' = r.at
        /\ IF r.kind = "return"
           THEN /\ scope' = [scope EXCEPT !.accounts = @ \cup {email}]
                /\ is_active' = [is_active EXCEPT ![email] = TRUE]
                /\ deleted' = [deleted EXCEPT ![email] = FALSE]
           ELSE UNCHANGED <<scope, is_active, deleted>>
        /\ last' = NoResp
        /\ UNCHANGED <<now, store, nextTok, inflight, owner, everStored,
                       watch, wRot, wUses, wOut, wDoomed, wParent>>
        /\ UNCHANGED <<limiter, ltime, reached>>

\* Registration runs start with no account or with one.
RegScopes ==
    { [accounts |-> {}, workers |-> 1, lifecycle |-> TRUE, surface |-> "access"],
      [accounts |-> {"u1"}, workers |-> 1, lifecycle |-> TRUE, surface |-> "access"] }

RegInit == (\E sc \in RegScopes : InitIn(sc)) /\ watch = 1 /\ ApiIdle /\ NoLineage

RegNext ==
    \/ \E email \in Users : RegisterRequest(email) /\ UNCHANGED parent
    \/ \E c \in Clients, ident \in scope.accounts \cup {NoUser}, pwOk \in BOOLEAN :
          LoginRequest(c, ident, pwOk, "none") /\ Lineage(Forged)
    \/ \E cred \in Credentials : Authenticate(cred) /\ UNCHANGED parent
    \/ \E cred \in Credentials : DeleteMe(cred) /\ UNCHANGED parent
    \/ \E u \in Users : Deactivate(u) /\ UNCHANGED parent
    \/ Elapse /\ UNCHANGED parent

RegSpec == RegInit /\ [][RegNext]_vars

\* ------------------------------------------------------- two accounts
\* Sessions of two registered accounts side by side: login, refresh and
\* logout requests, no storage faults.
PairScopes ==
    { [accounts |-> Users, workers |-> 1, lifecycle |-> FALSE, surface |-> "session"] }

PairInit == (\E sc \in PairScopes : InitIn(sc)) /\ watch = 1 /\ ApiIdle /\ NoLineage

PairNext ==
    \/ \E c \in Clients, ident \in scope.accounts \cup {NoUser}, pwOk \in BOOLEAN :
          LoginRequest(c, ident, pwOk, "none") /\ Lineage(Forged)
    \/ \E tok \in RawTokens : RefreshCheck(tok) /\ UNCHANGED parent
    \/ \E c \in Calls : RefreshRevoke(c) /\ UNCHANGED parent
    \/ \E c \in Calls : RefreshCreate(c) /\ Lineage(c.tok)
    \/ \E tok \in RawTokens : LogoutRequest(tok, FALSE) /\ UNCHANGED parent
    \/ Elapse /\ UNCHANGED parent

PairSpec == PairInit /\ [][PairNext]_vars

\* ================================================================ claims
Stored(t) == hash_refresh_token(t) \in DOMAIN store
RowOf(t) == store[hash_refresh_token(t)]
RowsOf(u) == {h \in DOMAIN store : store[h].user_id = u}
WatchInFlight == \E c \in Calls : c.tok = watch

\* The latest step returned the response to a Rotate / Logout of the
\* watched token.
RotateReturned == last.op = "rotate" /\ last.tok = watch
LogoutReturned == last.op = "logout" /\ last.tok = watch

\* ---- C1
\* C1 as claimed: a Rotate(t) started after a successful Rotate(t) always
\* fails through the reuse-detection path.
C1_AlwaysReusePath ==
    (RotateReturned /\ last.lateRot) => last.res = "reuse"

\* C1 as amended: a Rotate(t) started after a successful Rotate(t) never
\* succeeds; while t's row is stored it takes the reuse-detection path and
\* leaves no row of the owner non-revoked; once the row has been
\* hard-deleted it fails as an unknown token.
C1_OneTimeUse ==
    (RotateReturned /\ last.lateRot) =>
        \/ /\ last.res = "reuse"
           /\ last.found
           /\ \A h \in RowsOf(last.user) : store[h].is_revoked
        \/ /\ last.res = "invalid_token"
           /\ ~last.found
           /\ ~Stored(watch)

C1_Witness ==
    RotateReturned /\ last.lateRot /\ last.res = "reuse"

\* ---- C2
\* C2: when the same stored token has been presented to Rotate twice, one
\* of the calls succeeded and all calls on it have returned, then exactly
\* one call succeeded and no row of the owner is consumable (not revoked
\* and now < expires_at).
C2_BlastRadius ==
    (RotateReturned /\ last.found /\ wUses = 2 /\ wRot >= 1 /\ ~WatchInFlight) =>
        /\ wRot = 1
        /\ \A h \in RowsOf(owner[watch]) :
              store[h].is_revoked \/ now >= store[h].expires_at

\* ---- C3
\* C3: a token issued to U before a reuse detection of U never rotates
\* again: a Rotate started after the cascade fails (reuse path, or unknown
\* token once the row was deleted).
C3_ReuseCascades ==
    (RotateReturned /\ last.lateCasc) => last.res \in {"reuse", "invalid_token"}

\* A successor that was never presented before fails after the cascade.
C3_Witness ==
    /\ RotateReturned /\ last.lateCasc /\ last.res = "reuse"
    /\ wUses = 1 /\ wRot = 0 /\ ~wOut /\ wParent # Forged

C5_ConsumabilityBoundary ==
    (RotateReturned /\ last.found) =>
        /\ last.res = "ok" => (~last.wasRevoked /\ last.cmp = "lt")
        /\ (~last.wasRevoked /\ last.cmp \in {"eq", "gt"}) =>
              /\ last.res = "expired"
              /\ last.out = Forged
              /\ Stored(watch) => RowOf(watch).is_revoked

\* ---- C6
\* C6: the token a successful Rotate returns has a hash different from the
\* presented token's and from every hash ever stored before.
C6_RotationFresh ==
    [][\A c \in Calls :
         (RotateCreate(c) /\ c.tok = watch /\ last'.res = "ok") =>
            /\ hash_refresh_token(last'.out) # hash_refresh_token(c.tok)
            /\ \A u \in Users : <<u, hash_refresh_token(last'.out)>> \notin everStored
            /\ <<c.snap.user_id, hash_refresh_token(last'.out)>> \in everStored']_vars

C6_Witness ==
    RotateReturned /\ last.res = "ok" /\ last.out # Forged /\ Cardinality(everStored) >= 2

\* ---- C7
\* C7: a Rotate that presents an issued token for the first time, when no
\* reuse detection has hit the token before the call, the account is
\* active and the token has not reached its expiry, succeeds and returns
\* a new, usable token of the same owner.
C7_Chain ==
    (/\ RotateReturned
     /\ owner[watch] # NoUser
     /\ wUses = 1 /\ ~wOut
     /\ ~last.lateCasc
     /\ is_active[owner[watch]] /\ ~deleted[owner[watch]]
     /\ Stored(watch) /\ now < RowOf(watch).expires_at)
    =>
        /\ last.res = "ok"
        /\ last.out \notin {Forged, watch}
        /\ owner[last.out] = owner[watch]
        /\ Stored(last.out) /\ ~RowOf(last.out).is_revoked

\* The second rotation of a chain: watch was itself returned by a rotation.
C7_Witness ==
    /\ RotateReturned /\ last.res = "ok"
    /\ wParent # Forged /\ wUses = 1 /\ ~wOut
    /\ ~last.lateCasc

\* ---- C8
\* C8 as claimed: a Logout(t) after a Logout(t) that returned Ok returns Ok.
C8_SecondLogoutOk ==
    (LogoutReturned /\ last.lateOut) => last.res = "ok"

\* C8 as amended: a Logout(t) after a Logout(t) that returned Ok returns Ok
\* while t's row is stored, and token_not_found once the row has been
\* hard-deleted; it changes nothing in either case.
C8_LogoutIdempotent ==
    (LogoutReturned /\ last.lateOut) =>
        \/ last.res = "ok" /\ last.found /\ last.wasRevoked /\ RowOf(watch).is_revoked
        \/ last.res = "token_not_found" /\ ~last.found /\ ~Stored(watch)

C8_Witness ==
    LogoutReturned /\ last.lateOut /\ last.res = "ok"

\* ---- C9
\* C9: a Logout step creates and deletes no row and changes at most the
\* is_revoked flag of the row whose hash matches the presented token.
C9_LogoutFrame ==
    [][\A tok \in RawTokens :
         Logout(tok) =>
            /\ DOMAIN store' = DOMAIN store
            /\ \A h \in DOMAIN store :
                  \/ store'[h] = store[h]
                  \/ /\ h = hash_refresh_token(tok)
                     /\ store'[h] = [store[h] EXCEPT !.is_revoked = TRUE]]_vars

\* After a Logout another session of the same account and a session of
\* another account are still not revoked.
C9_Witness ==
    /\ LogoutReturned /\ last.res = "ok" /\ ~last.wasRevoked
    /\ RowOf(watch).is_revoked
    /\ \E h \in RowsOf(owner[watch]) : ~store[h].is_revoked
    /\ \E h \in DOMAIN store : store[h].user_id # owner[watch] /\ ~store[h].is_revoked

\* ---- C10
\* C10: a Rotate(t) started after a Logout(t) that returned Ok never
\* succeeds.
C10_NoRotateAfterLogout ==
    (RotateReturned /\ last.lateOut) => last.res \in {"reuse", "invalid_token"}

C10_Witness ==
    RotateReturned /\ last.lateOut /\ last.res = "reuse" /\ wRot = 0

\* ================================================= claims on the HTTP routes
\* The 401 of a rejected login, as the caller sees it.
InvalidCredentials == Unauthorized("login", "Invalid email or password")

\* ---- C11
\* C11: a login with an unknown identifier and a login with a known
\* identifier and a wrong password get the same response: the same
\* category (invalid credentials), message and HTTP status, and no token.
C11_NoExistenceOracle ==
    cause \in {"no_account", "wrong_password"} => http = InvalidCredentials

\* A wrong password for a registered account was answered.
C11_Witness ==
    /\ cause = "wrong_password" /\ http.status = 401
    /\ UserFound("u1")

\* The response of POST /auth/refresh to a token that matches no row.
UnknownTokenResponse ==
    route("refresh", 401,
          refresh_result(get_by_hash(store, hash_refresh_token(Forged)), now), NoHttp)

\* ---- C12
\* C12 as claimed: the response to a Rotate of a reused (already revoked)
\* token is identical, in status and body, to the response to an unknown
\* token.
C12_ReuseLooksUnknown ==
    (http.op = "refresh" /\ cause = "reuse") => http = UnknownTokenResponse

\* ---- C13
\* C13: Login answers account_inactive exactly when the account exists, the
\* password verifies and is_active is false (an inactive account with a
\* wrong password gets invalid_credentials); in neither case is an access
\* token issued or a refresh-token row created.
C13_InactiveLogin ==
    [][\A c \in Clients, ident \in Users \cup {NoUser}, pwOk \in BOOLEAN :
         (LoginRequest(c, ident, pwOk, "none") /\ http'.status # 429) =>
            /\ (http'.detail = "Account is inactive")
                  <=> (UserFound(ident) /\ pwOk /\ ~is_active[ident])
            /\ (UserFound(ident) /\ ~pwOk /\ ~is_active[ident])
                  => http' = InvalidCredentials
            /\ (UserFound(ident) /\ ~is_active[ident]) =>
                  /\ http'.status = 401
                  /\ http'.access = NoAccess /\ http'.refresh = Forged
                  /\ store' = store /\ nextTok' = nextTok]_vars

\* A deactivated account logged in with its password and was turned away.
C13_Witness ==
    /\ http.op = "login" /\ cause = "inactive" /\ http.detail = "Account is inactive"
    /\ UserFound("u1") /\ ~is_active["u1"]

\* The raw refresh token the latest request generated.
Generated == nextTok - 1

\* ---- C14
\* C14 as claimed: when DeleteExpired or Create fails during the login of an
\* active account with correct credentials, the login still answers 200
\* with an access token, the refresh token is absent, and no row for the
\* generated token is left in the table.
C14_LoginDegradation ==
    (http.op = "login" /\ cause \in {"delete_expired", "create_commit", "create_refresh"})
    =>
        /\ http.status = 200
        /\ http.access = create_access_token(http.user, now)
        /\ http.refresh = Forged
        /\ hash_refresh_token(Generated) \notin DOMAIN store

\* ---- C15
\* C15: a token whose hash matches no stored row is rejected by Rotate with
\* invalid_token (HTTP 401) and by Logout with token_not_found (HTTP 400),
\* and neither call changes any row of the table.
C15_UnknownToken ==
    [][\A tok \in RawTokens :
         ~Stored(tok) =>
            /\ RefreshCheck(tok) =>
                  /\ http' = Unauthorized("refresh", "Invalid refresh token")
                  /\ tok = watch => last'.res = "invalid_token"
                  /\ store' = store /\ inflight' = inflight
            /\ LogoutRequest(tok, FALSE) =>
                  /\ http' = [NoHttp EXCEPT !.op = "logout", !.status = 400,
                                            !.detail = "Invalid refresh token"]
                  /\ tok = watch => last'.res = "token_not_found"
                  /\ store' = store]_vars

\* A never-issued token was refused by POST /auth/refresh while the table
\* held a live session.
C15_Witness ==
    /\ http.op = "refresh" /\ cause = "unknown" /\ http.status = 401
    /\ \E h \in DOMAIN store : ~store[h].is_revoked

\* ---- C16
\* C16: an access token issued to an account authenticates as that account
\* until its own expiry whatever the refresh-token table holds: a Logout,
\* a rotation or a reuse-detection revocation never makes a valid, unexpired
\* access token be rejected.
C16_StatelessAccess ==
    [][\A cred \in AccessTokens :
         (/\ Authenticate(cred)
          /\ cred.kind = "jwt" /\ cred.sub \in Users /\ now <= cred.exp
          /\ UserFound(cred.sub) /\ is_active[cred.sub])
         => (http'.status = 200 /\ http'.user = cred.sub)]_vars

\* An access token was accepted although every refresh token of its
\* account is revoked.
C16_Witness ==
    /\ http.op = "auth" /\ http.status = 200
    /\ RowsOf(http.user) # {}
    /\ \A h \in RowsOf(http.user) : store[h].is_revoked

\* ---- C17
\* C17: once an account is soft-deleted, every later authentication with one
\* of its access tokens is answered 401 and every later Rotate with one of
\* its refresh tokens fails, with no further operation in between.
C17_DeletedAccount ==
    [][/\ \A cred \in AccessTokens :
            (Authenticate(cred) /\ cred.sub \in Users /\ deleted[cred.sub])
            => http'.status = 401
       /\ \A tok \in 1..MaxTok :
            (RefreshCheck(tok) /\ owner[tok] \in Users /\ deleted[owner[tok]])
            => (http'.status = 401 /\ inflight' = inflight /\ nextTok' = nextTok)]_vars

\* A refresh token that was live when its account was deleted is refused.
C17_Witness ==
    /\ http.op = "refresh" /\ cause = "unavailable" /\ http.status = 401
    /\ deleted["u1"]

Unauthenticated == Unauthorized("auth", "Invalid authentication credentials")

\* ---- C19
\* C19: every failure to decode an access token (bad signature, expired,
\* malformed, missing subject, subject that is not a UUID) gets one and the
\* same 'unauthenticated' response; nothing in it tells the causes apart.
C19_DecodeCollapses ==
    (/\ http.op = "auth"
     /\ cause \in {"bad_signature", "expired", "malformed", "no_sub", "bad_sub"})
    => http = Unauthenticated

\* A validly signed access token of a registered account was refused after
\* its expiry.
C19_Witness ==
    /\ http.op = "auth" /\ cause = "expired" /\ http.status = 401
    /\ nextTok > 1 /\ UserFound("u1") /\ is_active["u1"]

\* Login requests of client c that reached the login logic at the limiter
\* ticks a..b.
ReachedIn(c, a, b) == SumTo(reached[c], b) - SumTo(reached[c], a - 1)

\* The tick at which the limiter window of client c that covers tick t
\* started, -1 when no window covers t.  A window starts with the first
\* request after the previous window ended and lasts LimitWindow ticks.
RECURSIVE WindowStart(_, _)
WindowStart(c, t) ==
    IF t < 0 THEN -1
    ELSE LET p == WindowStart(c, t - 1)
         IN  IF p >= 0 /\ t < p + LimitWindow THEN p
             ELSE IF reached[c][t] > 0 THEN t
             ELSE -1

\* ---- C20
\* C20 as claimed: within any one-minute window at most 5 login requests
\* of one client address reach the login logic.
C20_AnyMinute ==
    \A c \in Clients : \A t \in 0..(MaxLTime - LimitWindow + 1) :
        ReachedIn(c, t, t + LimitWindow - 1) <= LoginLimit

\* C20 as amended: within one limiter window of a client address (the
\* minute that starts with its first login request after the previous
\* window ended) at most 5 login requests reach the login logic, whether
\* they end in 200 or 401; a request is answered 429 only when 5 requests
\* of its window have already reached it.
C20_FixedWindow ==
    /\ \A c \in Clients : \A t \in 0..ltime :
          WindowStart(c, t) >= 0 =>
              ReachedIn(c, WindowStart(c, t), t) <= LoginLimit
    /\ (http.op = "login" /\ cause = "rate_limit") =>
          /\ http.status = 429
          /\ \E c \in Clients :
                /\ WindowStart(c, ltime) >= 0
                /\ ReachedIn(c, WindowStart(c, ltime), ltime) = LoginLimit

\* The sixth request of a window is refused after five requests that were
\* all answered 401.
C20_Witness ==
    /\ http.status = 429 /\ cause = "rate_limit"
    /\ nextTok = 1
    /\ ReachedIn("10.0.0.1", 0, ltime) = LoginLimit
    /\ reached["10.0.0.2"][0] > 0

\* ================================================= claims on the lineages
\* The token a login generated from which t descends by rotations.
RECURSIVE Root(_)
Root(t) == IF parent[t] = t \/ parent[t] = Forged THEN t ELSE Root(parent[t])

\* The stored, non-revoked, unexpired rows of the lineage that starts at r.
ActiveIn(r) ==
    {t \in 1..MaxTok :
        /\ parent[t] # Forged /\ Root(t) = r
        /\ Stored(t) /\ ~RowOf(t).is_revoked /\ ~IsExpired(now, RowOf(t).expires_at)}

\* ---- C21
\* C21 as claimed: in every reachable state each lineage (the row of one
\* login and the successors created by rotating it) holds at most one row
\* that is neither revoked nor expired.
C21_OneActivePerLineage ==
    \A r \in 1..MaxTok : Cardinality(ActiveIn(r)) <= 1

\* The stored, non-revoked rows generated by rotating t.
LiveSuccessors(t) ==
    {n \in 1..MaxTok : n # t /\ parent[n] = t /\ Stored(n) /\ ~RowOf(n).is_revoked}

\* ---- C22
\* C22: the lookup, the revoke and the create of Rotate are separate store
\* operations without a row lock or a conditional write: a call that passed
\* the is_revoked check goes on to create its successor even when another
\* call has revoked the presented row in between, so two Rotate calls on
\* the same consumable token can both succeed, each with its own persisted
\* non-revoked successor.
C22_NoConditionalWrite ==
    [][\A c \in Calls :
         (/\ RotateRevoke(c)
          /\ c.snap.token_hash \in DOMAIN store
          /\ store[c.snap.token_hash].is_revoked)
         => (/\ store' = store
             /\ BagIn([c EXCEPT !.pc = "create"], inflight'))]_vars

\* Both Rotate calls on the watched token returned success and both
\* successors are stored and not revoked.
C22_Witness ==
    /\ wRot = 2 /\ ~WatchInFlight
    /\ Cardinality(LiveSuccessors(watch)) = 2
    /\ RowOf(watch).is_revoked

\* ---- C23
\* C23 as claimed: the revoke of the presented row and the creation of its
\* successor take effect together or not at all: when a Rotate call that
\* loaded the row non-revoked has failed, also on a storage fault in
\* create, and nothing else revoked the row, then the row is not revoked
\* unless a successor was persisted.
C23_AtomicRotation ==
    (/\ RotateReturned /\ last.res = "server_error"
     /\ last.found /\ ~last.wasRevoked
     /\ wRot = 0 /\ ~wOut /\ ~wDoomed
     /\ Stored(watch) /\ RowOf(watch).is_revoked)
    => \E n \in 1..MaxTok : n # watch /\ parent[n] = watch /\ Stored(n)

\* ---- C24
\* C24 as claimed: a Rotate(t) retried after a Rotate(t) that took effect
\* changes nothing but the row of t; the owner's other rows, the successor
\* created by the first call among them, stay as they were.
C24_RetrySafe ==
    [][(RotateCheck(watch) /\ wRot >= 1) =>
          \A h \in DOMAIN store :
              h # hash_refresh_token(watch) => (h \in DOMAIN store' /\ store'[h] = store[h])]_vars

\* C24 as amended: a Rotate(t) retried after a Rotate(t) that took effect
\* is handled as reuse while the row of t is stored: it revokes every
\* non-revoked row of the owner, the successor created by the first call
\* included, creates and deletes no row, leaves the rows of other accounts
\* alone and fails; once the row of t has been deleted it fails as an
\* unknown token and changes nothing.
C24_RetryIsReuse ==
    [][(RotateCheck(watch) /\ wRot >= 1) =>
          IF Stored(watch)
          THEN /\ last'.res = "reuse"
               /\ DOMAIN store' = DOMAIN store
               /\ \A h \in DOMAIN store :
                     IF store[h].user_id = owner[watch]
                     THEN store'[h] = [store[h] EXCEPT !.is_revoked = TRUE]
                     ELSE store'[h] = store[h]
               /\ inflight' = inflight /\ nextTok' = nextTok
          ELSE /\ last'.res = "invalid_token"
               /\ store' = store /\ inflight' = inflight /\ nextTok' = nextTok]_vars

\* The retry has revoked the successor that the first call created.
C24_Witness ==
    /\ RotateReturned /\ last.lateRot /\ last.res = "reuse"
    /\ wRot = 1 /\ wUses = 2 /\ ~wOut /\ ~last.lateCasc
    /\ \E n \in 1..MaxTok :
          /\ n # watch /\ parent[n] = watch /\ Stored(n) /\ RowOf(n).is_revoked
          /\ \A m \in 1..MaxTok : parent[m] # n

\* ---- C25
\* C25: revocation is monotonic: whatever the operation and the
\* interleaving, a row whose is_revoked is true is never seen again with
\* is_revoked false (it stays revoked until it is deleted, and a deleted
\* hash is never inserted again).
C25_RevocationMonotonic ==
    [][/\ \A h \in DOMAIN store :
            (store[h].is_revoked /\ h \in DOMAIN store') => store'[h].is_revoked
       /\ \A h \in DOMAIN store' \ DOMAIN store :
            \A u \in Users : <<u, h>> \notin everStored]_vars

\* A reuse detection ran over an account that holds a row revoked earlier
\* and a row that was live until then.
C25_Witness ==
    /\ RotateReturned /\ last.res = "reuse"
    /\ Cardinality(RowsOf(owner[watch])) >= 3
    /\ \A h \in RowsOf(owner[watch]) : store[h].is_revoked

\* ---- C26
\* C26: Rotate presented with a stored row that is revoked, whatever
\* revoked it (a rotation, a Logout, the expiry close-out, an earlier
\* cascade), revokes every non-revoked row of the row's owner and fails,
\* on every such presentation.
C26_ReuseAlwaysFires ==
    [][\A tok \in RawTokens :
         (RotateCheck(tok) /\ Stored(tok) /\ RowOf(tok).is_revoked) =>
            /\ \A h \in DOMAIN store :
                  store[h].user_id = RowOf(tok).user_id => store'[h].is_revoked
            /\ DOMAIN store' = DOMAIN store
            /\ inflight' = inflight /\ nextTok' = nextTok
            /\ tok = watch => last'.res = "reuse"]_vars

\* A token revoked by Logout is presented a second time, after a cascade
\* and a later login of its owner.
C26_Witness ==
    /\ RotateReturned /\ last.res = "reuse"
    /\ last.lateOut /\ last.lateCasc /\ wRot = 0 /\ wUses = 2
    /\ \E n \in 1..MaxTok :
          /\ n > watch /\ parent[n] = n /\ owner[n] = owner[watch]
          /\ Stored(n) /\ RowOf(n).is_revoked

\* ---- C27
\* C27: a reuse-detection cascade for owner U changes only rows whose
\* user_id is U; every row of every other account keeps its is_revoked
\* value and all its other columns.
C27_OwnerScoped ==
    [][\A tok \in RawTokens :
         (RotateCheck(tok) /\ Stored(tok) /\ RowOf(tok).is_revoked) =>
            \A h \in DOMAIN store :
                store[h].user_id # RowOf(tok).user_id =>
                    (h \in DOMAIN store' /\ store'[h] = store[h])]_vars

\* After a cascade over the owner of the watched token, which had a live
\* row, another account still holds a consumable row.
C27_Witness ==
    /\ RotateReturned /\ last.res = "reuse"
    /\ Cardinality(RowsOf(owner[watch])) >= 2
    /\ \E h \in DOMAIN store :
          /\ store[h].user_id # owner[watch]
          /\ ~store[h].is_revoked /\ ~IsExpired(now, store[h].expires_at)

\* ---- C28
\* C28: revoke_all_for_user(U) returns exactly the number of U's rows that
\* were non-revoked before the call, expired ones included: these are
\* exactly the rows the call changes; and after the call no row of U is
\* non-revoked.
C28_RevokeAllCount ==
    [][\A tok \in RawTokens :
         (RotateCheck(tok) /\ Stored(tok) /\ RowOf(tok).is_revoked) =>
            LET u == RowOf(tok).user_id
                live == {h \in DOMAIN store :
                            store[h].user_id = u /\ ~store[h].is_revoked}
                changed == {h \in DOMAIN store : store'[h] # store[h]}
            IN  /\ DOMAIN store' = DOMAIN store
                /\ changed = live
                /\ revoke_all_returned(store, u) = Cardinality(changed)
                /\ \A h \in DOMAIN store' :
                      store'[h].user_id = u => store'[h].is_revoked]_vars

\* A cascade over the owner of the watched token has run while the owner
\* held an expired row of a login that was never rotated.
C28_Witness ==
    /\ RotateReturned /\ last.res = "reuse"
    /\ revoke_all_returned(store, owner[watch]) = 0
    /\ \E n \in 1..MaxTok :
          /\ n # watch /\ parent[n] = n /\ owner[n] = owner[watch]
          /\ Stored(n) /\ RowOf(n).expires_at < now
          /\ \A m \in 1..MaxTok : parent[m] = n => m = n

\* ---- C29
\* The rows a step removes from the table.
Removed == DOMAIN store \ DOMAIN store'

\* C29: delete_expired(U) removes exactly the rows with user_id U and
\* expires_at < now, revoked or not, and no row with expires_at >= now or
\* of another account; and no other operation removes a row: a step that
\* removes rows is a login of U that got past the credential checks.
C29_DeleteExpiredExact ==
    [][/\ \A ident \in Users :
            (Login(ident, TRUE) /\ UserFound(ident) /\ is_active[ident]) =>
                Removed = {h \in DOMAIN store :
                              store[h].user_id = ident /\ store[h].expires_at < now}
       /\ Removed # {} =>
            \E ident \in Users :
                /\ Login(ident, TRUE) /\ UserFound(ident) /\ is_active[ident]
                /\ \A h \in Removed :
                      store[h].user_id = ident /\ store[h].expires_at < now]_vars

\* A login removed an expired row of its account while an expired row of
\* another account and an unexpired row of its own stayed in the table.
C29_Witness ==
    \E t \in 1..MaxTok :
        /\ parent[t] # Forged /\ <<owner[t], hash_refresh_token(t)>> \in everStored
        /\ ~Stored(t)
        /\ \E h \in DOMAIN store :
              store[h].user_id # owner[t] /\ store[h].expires_at < now
        /\ \E h \in DOMAIN store :
              store[h].user_id = owner[t] /\ store[h].expires_at >= now

\* ---- C30
\* The presented token has a row that is neither revoked nor expired, and
\* its owner is missing, soft-deleted or inactive.
OwnerUnavailable(tok) ==
    /\ Stored(tok) /\ ~RowOf(tok).is_revoked
    /\ ~IsExpired(now, RowOf(tok).expires_at)
    /\ ~UserFound(RowOf(tok).user_id) \/ ~is_active[RowOf(tok).user_id]

\* C30: a Rotate on such a token revokes exactly the presented row, creates
\* no successor, issues no access token and fails with "User account not
\* found or inactive"; every other row, the owner's included, is unchanged.
C30_UnavailableAccount ==
    [][\A tok \in 1..MaxTok :
         (RefreshCheck(tok) /\ OwnerUnavailable(tok)) =>
            /\ DOMAIN store' = DOMAIN store
            /\ store'[hash_refresh_token(tok)] =
                  [RowOf(tok) EXCEPT !.is_revoked = TRUE]
            /\ \A h \in DOMAIN store :
                  h # hash_refresh_token(tok) => store'[h] = store[h]
            /\ inflight' = inflight /\ nextTok' = nextTok
            /\ everStored' = everStored
            /\ http'.status = 401
            /\ http'.detail = "User account not found or inactive"
            /\ http'.access = NoAccess /\ http'.refresh = Forged]_vars

\* The token of a deactivated account was refused and closed out while
\* another session of the account stayed consumable.
C30_Witness ==
    /\ http.op = "refresh" /\ cause = "unavailable" /\ http.status = 401
    /\ \E u \in Users :
          /\ ~is_active[u] /\ ~deleted[u]
          /\ \E h \in RowsOf(u) : store[h].is_revoked
          /\ \E h \in RowsOf(u) :
                ~store[h].is_revoked /\ ~IsExpired(now, store[h].expires_at)

\* ---------------------------------------------- claims on the frame
\* ---- C31
\* C31: every successful Rotate(t) inserts its successor for the owner of
\* t's row and returns an access token whose subject is that owner; no
\* step changes the user_id of a row that stays in the table; and every
\* successor row belongs to the account of the row it replaces.
C31_IdentityPreserved ==
    [][/\ \A c \in Calls :
            (RefreshCreate(c) /\ http'.status = 200) =>
                /\ store'[hash_refresh_token(http'.refresh)].user_id = owner[c.tok]
                /\ http'.access.sub = owner[c.tok]
                /\ http'.user = owner[c.tok]
       /\ \A h \in DOMAIN store \cap DOMAIN store' :
            store'[h].user_id = store[h].user_id
       /\ \A t \in 1..MaxTok :
            LET p == parent'[t]
            IN  (/\ p \notin {Forged, t}
                 /\ hash_refresh_token(t) \in DOMAIN store'
                 /\ hash_refresh_token(p) \in DOMAIN store') =>
                    store'[hash_refresh_token(t)].user_id =
                        store'[hash_refresh_token(p)].user_id]_vars

\* A rotation of a token of the second of two accounts was answered: the
\* successor row and the access token belong to the second account.
C31_Witness ==
    /\ http.op = "refresh" /\ http.status = 200
    /\ http.user = "u2" /\ http.access.sub = "u2"
    /\ Stored(http.refresh) /\ RowOf(http.refresh).user_id = "u2"
    /\ parent[http.refresh] # http.refresh
    /\ owner[parent[http.refresh]] = "u2"

\* ---- C32
\* The rows a step inserts into the table.
Added == DOMAIN store' \ DOMAIN store

\* C32: a login that returns its refresh token adds exactly one row, a
\* non-revoked row of the account keyed by the hash of the returned token,
\* and removes exactly the account's rows with expires_at < now; no login
\* changes a row that stays in the table, so earlier sessions stay
\* consumable; a login refused for its credentials or for an inactive
\* account leaves the table unchanged.
C32_LoginFrame ==
    [][/\ (http'.op = "login" /\ http'.status = 200 /\ http'.refresh # Forged) =>
            store' # store
       /\ \A c \in Clients, ident \in Users \cup {NoUser}, pwOk \in BOOLEAN,
            fault \in LoginFaults :
         (/\ http'.op = "login" /\ store' # store
          /\ LoginRequest(c, ident, pwOk, fault)) =>
            /\ (http'.status = 200 /\ http'.refresh # Forged) =>
                  /\ Added = {hash_refresh_token(http'.refresh)}
                  /\ store'[hash_refresh_token(http'.refresh)].user_id = ident
                  /\ ~store'[hash_refresh_token(http'.refresh)].is_revoked
                  /\ Removed = {h \in DOMAIN store :
                                   store[h].user_id = ident /\ store[h].expires_at < now}
            /\ \A h \in Removed :
                  store[h].user_id = ident /\ store[h].expires_at < now
            /\ \A h \in DOMAIN store \cap DOMAIN store' : store'[h] = store[h]
            /\ login_result(ident, pwOk).kind = "ValueError" => store' = store]_vars

\* A second login of the account returned its token while the session of
\* the first login stayed consumable.
C32_Witness ==
    /\ http.op = "login" /\ http.status = 200 /\ http.refresh = 2
    /\ Stored(2) /\ ~RowOf(2).is_revoked
    /\ owner[1] = http.user /\ Stored(1)
    /\ ~RowOf(1).is_revoked /\ ~IsExpired(now, RowOf(1).expires_at)

\* ---- C33
\* The raw tokens a Login or a Rotate has returned.
Issued == {t \in 1..MaxTok : owner[t] \in Users}

\* C33 (as stated): no two rows share a token_hash, and every raw token
\* that was returned has a row keyed by its hash in the table.
C33_OneRecordPerToken ==
    /\ \A h \in DOMAIN store : store[h].token_hash = h
    /\ \A t \in Issued : Stored(t)

\* C33 (amended): no two rows share a token_hash; a returned token has a
\* row from the moment it is returned, the row leaves the table only when
\* its expires_at < now, and once removed it never comes back.
C33_OneRecordUntilRemoved ==
    [][/\ \A h \in DOMAIN store' : store'[h].token_hash = h
       /\ \A t \in 1..MaxTok :
            /\ (owner'[t] \in Users /\ owner[t] \notin Users) =>
                  hash_refresh_token(t) \in Added
            /\ (t \in Issued /\ Stored(t) /\ hash_refresh_token(t) \in Removed) =>
                  RowOf(t).expires_at < now
            /\ (t \in Issued /\ ~Stored(t)) => hash_refresh_token(t) \notin Added]_vars

\* The row of a returned token was removed by the housekeeping of a later
\* login whose own token has its row.
C33_Witness ==
    \E t \in Issued, n \in Issued :
        /\ ~Stored(t) /\ Stored(n) /\ n > t /\ owner[n] = owner[t] /\ parent[n] = n

\* ---- C34
\* C34: every row a Login or a Rotate inserts starts with is_revoked =
\* FALSE and expires_at = the time of its creation + the refresh TTL; the
\* expiry of a successor is counted from the rotation, whatever the expiry
\* of the row it replaces.
C34_FreshRow ==
    [][\A h \in Added :
          /\ ~store'[h].is_revoked
          /\ store'[h].created_at = now
          /\ store'[h].expires_at = now + RefreshTtl]_vars

\* A successor that expires later than the token it replaced.
C34_Witness ==
    \E n \in Issued :
        /\ parent[n] \notin {Forged, n}
        /\ Stored(n) /\ Stored(parent[n])
        /\ RowOf(n).expires_at > RowOf(parent[n]).expires_at
        /\ RowOf(n).expires_at = RowOf(n).created_at + RefreshTtl

\* ---- C35
\* C35: when a Logout of the watched token has returned Ok, the lineage of
\* the token has no consumable row, whether it was the lineage's current
\* token or an already rotated one, and whether or not a Rotate of it was
\* in flight.
C35_LogoutTerminates ==
    (LogoutReturned /\ last.res = "ok") => ActiveIn(Root(watch)) = {}

\* ---- C36
\* C36: once a reuse-detection cascade for an account has completed, the
\* account has no consumable row until its next successful login, even if
\* a Rotate of the account had already passed its checks when the cascade
\* ran.  Stated for the owner of the watched token when the login that
\* issued the watched token is the account's only login.
C36_CascadeComplete ==
    (/\ wDoomed /\ parent[watch] = watch
     /\ \A n \in 1..MaxTok : (n # watch /\ owner[n] = owner[watch]) => parent[n] # n)
    => \A h \in RowsOf(owner[watch]) :
          store[h].is_revoked \/ IsExpired(now, store[h].expires_at)

\* ---- C37
\* C37: a login omits the refresh token only when create of the new row
\* failed; when only delete_expired failed, the new row is persisted and
\* its token returned.
C37_HousekeepingBestEffort ==
    (http.op = "login" /\ http.status = 200) =>
        /\ http.refresh = Forged => cause \in {"create_commit", "create_refresh"}
        /\ cause = "delete_expired" =>
              (http.refresh # Forged /\ Stored(http.refresh))

\* ---- C38
\* C38: a login or a refresh that returns a refresh token returns one
\* whose row is in the table, non-revoked and owned by the caller's
\* account; a call that fails or degrades returns no refresh token.
C38_NoDanglingToken ==
    /\ (http.op \in {"login", "refresh"} /\ http.refresh # Forged) =>
          /\ http.status = 200
          /\ Stored(http.refresh)
          /\ ~RowOf(http.refresh).is_revoked
          /\ RowOf(http.refresh).user_id = http.user
    /\ (http.op \in {"login", "refresh"}
        /\ cause \in (LoginFaults \ {"none"}) \cup {"storage_fault", "stale_row", "duplicate_hash"})
       => http.refresh = Forged

\* A login returned the second generated token, with its row, after a
\* degraded login had generated the first without returning it.
C38_Witness ==
    /\ http.op = "login" /\ http.status = 200 /\ http.refresh = 2
    /\ Stored(2) /\ owner[1] = NoUser /\ parent[2] = 2

\* ---- C39
\* C39: a registration either fails with "Email already registered" and
\* creates nothing, when an account that is not deleted holds the email,
\* or succeeds and creates an active account; in particular it succeeds
\* for the email of a soft-deleted account.
C39_RegistrationOutcome ==
    http.op = "register" =>
        \/ /\ http.status = 400 /\ http.detail = "Email already registered"
           /\ cause = "exists"
        \/ /\ http.status = 201 /\ cause = "created"
           /\ UserFound(http.user) /\ is_active[http.user]

====
